---------------------------- MODULE Spec2Model ----------------------------
(***************************************************************************)
(* A model of mrio.py: the PM2.5 extraction (analyze_pm25_emissions), the  *)
(* textile sector lookup (define_textile_industry), the top-N bar chart    *)
(* (plot_top_pm25) and the script's entry point (main).                    *)
(*                                                                         *)
(* Python strings are sequences of one-character strings, so that          *)
(* substring tests, regular-expression search, case folding and joining    *)
(* are computed character by character as the interpreter computes them.   *)
(* A pandas DataFrame is a record [index, columns, values] with values a   *)
(* sequence of rows; a pandas Series is a record [index, values].          *)
(***************************************************************************)
EXTENDS Integers, Sequences, FiniteSets, TLC

VARIABLES
    archive,        \* what is stored at `path`: the input of main
    pc,             \* the statement the running function is at
    io,             \* main: the loaded MRIO object
    regions,        \* main: first result of check_mrio_structure
    sectors,        \* main: second result of check_mrio_structure
    pm25_mask,      \* analyze_pm25_emissions: the boolean row mask
    em_pm25,        \* analyze_pm25_emissions: the rows of F the mask keeps
    F_pm25_total,   \* the column sums; also plot_top_pm25's first argument
    textile_idx,    \* define_textile_industry: the indices found
    console,        \* define_textile_industry: the lines printed
    errors,         \* main: the error lines printed by its handlers
    warnings,       \* the warnings issued; mrio.py has no statement that does
    mpl_styles,     \* the style names the installed matplotlib knows
    top_n,          \* plot_top_pm25: argument
    outpath,        \* plot_top_pm25: argument (None = default file name)
    top,            \* plot_top_pm25: the sorted, cut series
    top_rev,        \* plot_top_pm25: top reversed
    labels,         \* plot_top_pm25: tick labels
    values,         \* plot_top_pm25: bar widths
    colors,         \* plot_top_pm25: bar colours
    files,          \* the files written by savefig
    ret             \* plot_top_pm25: return value, or the exception it raised

vars ==
    <<archive, pc, io, regions, sectors, pm25_mask, em_pm25, F_pm25_total,
      textile_idx, console, errors, warnings, mpl_styles, top_n, outpath, top,
      top_rev, labels, values, colors, files, ret>>

mainVars ==
    <<archive, io, regions, sectors, pm25_mask, em_pm25, textile_idx,
      console, errors, warnings>>

plotArgs == <<top_n, outpath, mpl_styles>>

plotVars == <<top, top_rev, labels, values, colors, files, ret>>

-----------------------------------------------------------------------------
(* Bounds of the model.                                                    *)

\* rows of the air-emissions account
MaxRows == 2

\* largest entry of the account's table
MaxVal == 1

\* largest value of the series handed to plot_top_pm25
MaxTotal == 2

\* length of the dataset's sector list
MaxSectors == 3

\* length of the series handed to plot_top_pm25
MaxSeries == 3

\* largest explicit top_n
MaxTopN == 4

-----------------------------------------------------------------------------
(* Strings.                                                                *)

None == "None"


\* "Textiles (17)"
TextilesName ==
    <<"T", "e", "x", "t", "i", "l", "e", "s", " ", "(", "1", "7", ")">>

\* "Wearing apparel; furs (18)"
WearingName ==
    <<"W", "e", "a", "r", "i", "n", "g", " ", "a", "p", "p", "a", "r", "e",
      "l", ";", " ", "f", "u", "r", "s", " ", "(", "1", "8", ")">>

\* "Leather and leather products (19)"
LeatherName ==
    <<"L", "e", "a", "t", "h", "e", "r", " ", "a", "n", "d", " ", "l", "e",
      "a", "t", "h", "e", "r", " ", "p", "r", "o", "d", "u", "c", "t", "s",
      " ", "(", "1", "9", ")">>

\* "Textiles waste for treatment: incineration"
IncinerationName ==
    <<"T", "e", "x", "t", "i", "l", "e", "s", " ", "w", "a", "s", "t", "e",
      " ", "f", "o", "r", " ", "t", "r", "e", "a", "t", "m", "e", "n", "t",
      ":", " ", "i", "n", "c", "i", "n", "e", "r", "a", "t", "i", "o", "n">>

\* "Textiles waste for treatment: landfill"
LandfillName ==
    <<"T", "e", "x", "t", "i", "l", "e", "s", " ", "w", "a", "s", "t", "e",
      " ", "f", "o", "r", " ", "t", "r", "e", "a", "t", "m", "e", "n", "t",
      ":", " ", "l", "a", "n", "d", "f", "i", "l", "l">>

\* "Mining (05)": a sector outside the textile family
MiningName ==
    <<"M", "i", "n", "i", "n", "g", " ", "(", "0", "5", ")">>

\* "Recycled Textiles (17)": a sector whose name contains a core name
RecycledName ==
    <<"R", "e", "c", "y", "c", "l", "e", "d", " ", "T", "e", "x", "t", "i",
      "l", "e", "s", " ", "(", "1", "7", ")">>

\* "CN"
RegionCN ==
    <<"C", "N">>

\* "US"
RegionUS ==
    <<"U", "S">>

\* row labels of the account: "PM2.5 - air"
LabelUpper ==
    <<"P", "M", "2", ".", "5", " ", "-", " ", "a", "i", "r">>

\* "pm2.5 - bio"
LabelLower ==
    <<"p", "m", "2", ".", "5", " ", "-", " ", "b", "i", "o">>

\* "PM2x5": no literal "PM2.5" in it
LabelNear ==
    <<"P", "M", "2", "x", "5">>

\* "CO2 - air"
LabelCO2 ==
    <<"C", "O", "2", " ", "-", " ", "a", "i", "r">>

\* the pattern of line 58, "PM2.5"
Pm25Pattern ==
    <<"P", "M", "2", ".", "5">>

\* the same fragment in lower case, "pm2.5"
Pm25PatternLower ==
    <<"p", "m", "2", ".", "5">>

\* the separator of make_label, " - "
LabelSep ==
    <<" ", "-", " ">>

\* "ABCDEFGHIJKLMNOPQRSTUVWXYZ"
UpperCase ==
    <<"A", "B", "C", "D", "E", "F", "G", "H", "I", "J", "K", "L", "M", "N",
      "O", "P", "Q", "R", "S", "T", "U", "V", "W", "X", "Y", "Z">>

\* "abcdefghijklmnopqrstuvwxyz"
LowerCase ==
    <<"a", "b", "c", "d", "e", "f", "g", "h", "i", "j", "k", "l", "m", "n",
      "o", "p", "q", "r", "s", "t", "u", "v", "w", "x", "y", "z">>

\* colours of line 101
Red == "#d62728"

Blue == "#1f77b4"

\* os.path.join(os.getcwd(), 'pm25_top.png'), line 114
DefaultPath == "pm25_top.png"

\* a path given by the caller
CustomPath == "out/custom.png"

\* the style name of line 103
StyleName == "seaborn-whitegrid"

\* the name the same style has in matplotlib 3.6 and later
RenamedStyleName == "seaborn-v0_8-whitegrid"

\* top_n's default, line 72
DefaultTopN == 20

-----------------------------------------------------------------------------
(* Python built-ins.                                                       *)

Min(a, b) == IF a <= b THEN a ELSE b

Max(a, b) == IF a >= b THEN a ELSE b

\* c.lower() for an ASCII character, as re.IGNORECASE folds it
Lower(c) ==
    IF \E k \in 1..Len(UpperCase) : UpperCase[k] = c
    THEN LowerCase[CHOOSE k \in 1..Len(UpperCase) : UpperCase[k] = c]
    ELSE c

\* `sub in s` for two strings
StrIn(sub, s) ==
    \E i \in 0..(Len(s) - Len(sub)) : SubSeq(s, i + 1, i + Len(sub)) = sub

\* sep.join(parts)
RECURSIVE Join(_, _)
Join(sep, parts) ==
    IF parts = <<>> THEN <<>>
    ELSE IF Len(parts) = 1 THEN parts[1]
    ELSE parts[1] \o sep \o Join(sep, Tail(parts))

\* `x in list`
ListIn(x, list) == \E i \in 1..Len(list) : list[i] = x

\* list.index(x): the 0-based position of the first element equal to x
ListIndex(list, x) ==
    (CHOOSE i \in 1..Len(list) :
        list[i] = x /\ \A j \in 1..(i - 1) : list[j] # x) - 1

\* seq[::-1]
Reversed(seq) == [i \in 1..Len(seq) |-> seq[Len(seq) + 1 - i]]

-----------------------------------------------------------------------------
(* The regular expressions of re, as far as the pattern of line 58 uses    *)
(* them: a pattern is a sequence of atoms, each an ordinary character or   *)
(* the metacharacter ".", which matches any character but a newline.       *)

\* one atom against one character, under re.IGNORECASE when ~case
ReAtomMatches(atom, c, case) ==
    IF atom = "." THEN c # "\n"
    ELSE IF case THEN atom = c
    ELSE Lower(atom) = Lower(c)

\* the pattern matches s from position i on
ReMatchAt(pat, s, i, case) ==
    /\ i + Len(pat) - 1 <= Len(s)
    /\ \A k \in 1..Len(pat) : ReAtomMatches(pat[k], s[i + k - 1], case)

\* re.search(pat, s) finds a match
ReSearch(pat, s, case) ==
    \E i \in 1..(Len(s) + 1) : ReMatchAt(pat, s, i, case)

-----------------------------------------------------------------------------
(* pandas.                                                                 *)

\* Index.str.contains(pat, case=case), regex=True by default
StrContains(index, pat, case) ==
    [r \in 1..Len(index) |-> ReSearch(pat, index[r], case)]

\* the positions a boolean mask keeps, in order
RECURSIVE Kept(_, _)
Kept(mask, r) ==
    IF r > Len(mask) THEN <<>>
    ELSE (IF mask[r] THEN <<r>> ELSE <<>>) \o Kept(mask, r + 1)

\* DataFrame.loc[mask]: the rows the mask keeps, every column
Loc(frame, mask) ==
    LET rows == Kept(mask, 1)
    IN  [index   |-> [k \in 1..Len(rows) |-> frame.index[rows[k]]],
         columns |-> frame.columns,
         values  |-> [k \in 1..Len(rows) |-> frame.values[rows[k]]]]

\* the sum of column c over the rows from r on
RECURSIVE ColumnSum(_, _, _)
ColumnSum(rows, c, r) ==
    IF r > Len(rows) THEN 0 ELSE rows[r][c] + ColumnSum(rows, c, r + 1)

\* DataFrame.sum(axis=0): a Series over the frame's columns
SumAxis0(frame) ==
    [index  |-> frame.columns,
     values |-> [c \in 1..Len(frame.columns) |->
                    ColumnSum(frame.values, c, 1)]]

\* Series.empty
Empty(s) == Len(s.index) = 0

\* the series read in the order p
Take(s, p) ==
    [index  |-> [i \in 1..Len(p) |-> s.index[p[i]]],
     values |-> [i \in 1..Len(p) |-> s.values[p[i]]]]

\* the orders of 1..n
Orders(n) ==
    {p \in [1..n -> 1..n] : \A i, j \in 1..n : p[i] = p[j] => i = j}

\* Series.sort_values(ascending=False), kind="quicksort" by default: the
\* values come out in descending order; the algorithm is not stable, so the
\* order among equal values is any order
SortValuesDescending(s) ==
    {Take(s, p) : p \in
        {q \in Orders(Len(s.index)) :
            \A i, j \in 1..Len(s.index) :
                i < j => s.values[q[i]] >= s.values[q[j]]}}

\* Series.tail(n) for n >= 0: the last n entries
SeriesTail(s, n) ==
    LET k == Min(Max(n, 0), Len(s.index))
    IN  [index  |-> SubSeq(s.index, Len(s.index) - k + 1, Len(s.index)),
         values |-> SubSeq(s.values, Len(s.values) - k + 1, Len(s.values))]

\* Series.head(n): the first n entries; all but the last -n when n < 0
SeriesHead(s, n) ==
    LET k == IF n >= 0 THEN Min(n, Len(s.index))
             ELSE Max(Len(s.index) + n, 0)
    IN  [index  |-> SubSeq(s.index, 1, k),
         values |-> SubSeq(s.values, 1, k)]

\* Series[::-1]
ReversedSeries(s) ==
    [index |-> Reversed(s.index), values |-> Reversed(s.values)]

-----------------------------------------------------------------------------
(* The inputs: datasets as pymrio hands them over, and series.             *)

\* the columns of an extension table: (region, sector), region-major
Columns(regs, secs) ==
    [k \in 1..(Len(regs) * Len(secs)) |->
        <<regs[((k - 1) \div Len(secs)) + 1], secs[((k - 1) % Len(secs)) + 1]>>]

RowLabels == {LabelUpper, LabelLower, LabelNear, LabelCO2}

SectorNames ==
    {TextilesName, WearingName, LeatherName, MiningName, RecycledName}

\* the sector lists: ordered, unique
SectorLists ==
    UNION {
        {s \in [1..n -> SectorNames] : \A i, j \in 1..n : s[i] = s[j] => i = j} :
        n \in 0..MaxSectors}

\* the columns of the populated account: two regions, one sector
FilterColumns == Columns(<<RegionCN, RegionUS>>, <<TextilesName>>)

\* a dataset with a populated air-emissions account: the rows labelled idx,
\* the table vals
FilterDataset(idx, vals) ==
    [regions    |-> <<RegionCN, RegionUS>>,
     sectors    |-> <<TextilesName>>,
     extensions |-> {"air_emissions"},
     F          |-> [index |-> idx, columns |-> FilterColumns, values |-> vals]]

\* a dataset with the sector list secs and the extensions named exts; its
\* accounts have no rows
ResolveDataset(secs, exts) ==
    [regions    |-> <<RegionCN>>,
     sectors    |-> secs,
     extensions |-> exts,
     F          |-> [index |-> <<>>, columns |-> Columns(<<RegionCN>>, secs),
                     values |-> <<>>]]

NoFrame == [index |-> <<>>, columns |-> <<>>, values |-> <<>>]

NoSeries == [index |-> <<>>, values |-> <<>>]

NoDataset ==
    [regions |-> <<>>, sectors |-> <<>>, extensions |-> {}, F |-> NoFrame]

\* what is stored at main's path, when it can be read
Archive(d) == [status |-> "ok", data |-> d]

\* the column keys the series of plot_top_pm25 are drawn over
PlotColumns ==
    Columns(<<RegionCN, RegionUS>>, <<TextilesName, MiningName>>)

\* the series: at most MaxSeries of those columns, in column order
PlotSeries ==
    UNION {
        {[index  |-> [i \in 1..n |-> PlotColumns[pos[i]]], values |-> vals] :
            pos \in {q \in [1..n -> 1..Len(PlotColumns)] :
                        \A i, j \in 1..n : i < j => q[i] < q[j]},
            vals \in [1..n -> 0..MaxTotal]} :
        n \in 0..MaxSeries}

TopNs == (-2)..MaxTopN \cup {DefaultTopN}

-----------------------------------------------------------------------------
(* The functions of mrio.py.                                               *)

\* the core sectors
textile_core == <<TextilesName, WearingName, LeatherName>>

\* the whole chain, waste treatment included
textile_full ==
    <<TextilesName, WearingName, LeatherName, IncinerationName, LandfillName>>

\* analyze_pm25_emissions with the total taken over the whole account
analyze_pm25_emissions_unfiltered(d) ==
    LET mask == StrContains(d.F.index, Pm25Pattern, FALSE)
    IN  [pm25_mask |-> mask, em_pm25 |-> Loc(d.F, mask),
         F_pm25_total |-> SumAxis0(d.F)]

\* analyze_pm25_emissions(io), for an io that has the account
analyze_pm25_emissions(d) ==
    LET mask == StrContains(d.F.index, Pm25Pattern, FALSE)
        rows == Loc(d.F, mask)
    IN  [pm25_mask |-> mask, em_pm25 |-> rows, F_pm25_total |-> SumAxis0(rows)]

\* the loop of define_textile_industry leaving at the first name not found
RECURSIVE ResolveFromAbort(_, _, _)
ResolveFromAbort(sectors_list, names, k) ==
    IF k > Len(names) THEN [textile_idx |-> <<>>, console |-> <<>>]
    ELSE IF ListIn(names[k], sectors_list)
    THEN LET rest == ResolveFromAbort(sectors_list, names, k + 1)
             idx == ListIndex(sectors_list, names[k])
         IN  [textile_idx |-> <<idx>> \o rest.textile_idx,
              console |->
                  <<[found |-> TRUE, sector |-> names[k], idx |-> idx]>>
                  \o rest.console]
    ELSE [textile_idx |-> <<>>,
          console |-> <<[found |-> FALSE, sector |-> names[k], idx |-> -1]>>]

\* the loop of define_textile_industry from the k-th core name on: the
\* indices appended and the lines printed
RECURSIVE ResolveFrom(_, _, _)
ResolveFrom(sectors_list, names, k) ==
    IF k > Len(names) THEN [textile_idx |-> <<>>, console |-> <<>>]
    ELSE LET rest == ResolveFrom(sectors_list, names, k + 1)
             sector == names[k]
         IN  IF ListIn(sector, sectors_list)
             THEN LET idx == ListIndex(sectors_list, sector)
                  IN  [textile_idx |-> <<idx>> \o rest.textile_idx,
                       console |->
                           <<[found |-> TRUE, sector |-> sector, idx |-> idx]>>
                           \o rest.console]
             ELSE [textile_idx |-> rest.textile_idx,
                   console |->
                       <<[found |-> FALSE, sector |-> sector, idx |-> -1]>>
                       \o rest.console]

\* define_textile_industry(sectors)
define_textile_industry(secs) == ResolveFrom(secs, textile_core, 1)

\* make_label(idx) for a column key, a tuple
make_label(idx) == Join(LabelSep, idx)

\* the colour of a bar when the label has to equal a core name
BarColorExact(lab) ==
    IF \E k \in 1..Len(textile_core) : textile_core[k] = lab
    THEN Red ELSE Blue

\* the colour of a bar, line 101
BarColor(lab) ==
    IF \E k \in 1..Len(textile_core) : StrIn(textile_core[k], lab)
    THEN Red ELSE Blue

\* lines 84-101: the ranked series and what is drawn from it
Ranking(sorted, n) ==
    LET t == SeriesHead(sorted, n)
        r == ReversedSeries(t)
        labs == [i \in 1..Len(r.index) |-> make_label(r.index[i])]
    IN  [top |-> t, top_rev |-> r, labels |-> labs, values |-> r.values,
         colors |-> [i \in 1..Len(labs) |-> BarColor(labs[i])]]

-----------------------------------------------------------------------------
(* main(): lines 163-194.  Each step is one statement of the try block     *)
(* together with the handler that catches what the statement raises.       *)

\* line 172, load_and_prepare_mrio(path); lines 191-194 when it raises
MainLoad ==
    /\ pc = "load"
    /\ IF archive.status = "ok"
       THEN /\ io' = archive.data
            /\ pc' = "check"
            /\ UNCHANGED errors
       ELSE /\ errors' = Append(errors,
                            IF archive.status = "missing"
                            THEN "FileNotFoundError" ELSE "Exception")
            /\ pc' = "done"
            /\ UNCHANGED io
    /\ UNCHANGED <<archive, regions, sectors, pm25_mask, em_pm25,
                   F_pm25_total, textile_idx, console, warnings>>
    /\ UNCHANGED <<plotArgs, plotVars>>

\* line 175, check_mrio_structure(io)
MainCheck ==
    /\ pc = "check"
    /\ regions' = io.regions
    /\ sectors' = io.sectors
    /\ pc' = "analyze"
    /\ UNCHANGED <<archive, io, pm25_mask, em_pm25, F_pm25_total,
                   textile_idx, console, errors, warnings>>
    /\ UNCHANGED <<plotArgs, plotVars>>

\* line 178, analyze_pm25_emissions(io); line 54 raises AttributeError when
\* the dataset has no extension of that name
MainAnalyze ==
    /\ pc = "analyze"
    /\ IF "air_emissions" \in io.extensions
       THEN LET r == analyze_pm25_emissions(io)
            IN  /\ pm25_mask' = r.pm25_mask
                /\ em_pm25' = r.em_pm25
                /\ F_pm25_total' = r.F_pm25_total
                /\ pc' = "define"
                /\ UNCHANGED errors
       ELSE /\ errors' = Append(errors, "Exception")
            /\ pc' = "done"
            /\ UNCHANGED <<pm25_mask, em_pm25, F_pm25_total>>
    /\ UNCHANGED <<archive, io, regions, sectors, textile_idx, console,
                   warnings>>
    /\ UNCHANGED <<plotArgs, plotVars>>

\* line 181, define_textile_industry(sectors)
MainDefine ==
    /\ pc = "define"
    /\ LET r == define_textile_industry(sectors)
       IN  /\ textile_idx' = r.textile_idx
           /\ console' = r.console
    /\ pc' = "summary"
    /\ UNCHANGED <<archive, io, regions, sectors, pm25_mask, em_pm25,
                   F_pm25_total, errors, warnings>>
    /\ UNCHANGED <<plotArgs, plotVars>>

\* lines 184-189: the summary; the try block ends
MainSummary ==
    /\ pc = "summary"
    /\ pc' = "done"
    /\ UNCHANGED <<mainVars, F_pm25_total, plotArgs, plotVars>>

Init ==
    /\ \/ \E n \in 0..MaxRows :
            \E idx \in [1..n -> RowLabels],
               vals \in [1..n -> [1..Len(FilterColumns) -> 0..MaxVal]] :
                archive = Archive(FilterDataset(idx, vals))
       \/ \E secs \in SectorLists,
             exts \in {{"air_emissions"}, {"satellite", "impacts"}} :
                archive = Archive(ResolveDataset(secs, exts))
       \/ \E st \in {"missing", "corrupt"} :
                archive = [status |-> st, data |-> NoDataset]
    /\ pc = "load"
    /\ io = NoDataset
    /\ regions = <<>>
    /\ sectors = <<>>
    /\ pm25_mask = <<>>
    /\ em_pm25 = NoFrame
    /\ F_pm25_total = NoSeries
    /\ textile_idx = <<>>
    /\ console = <<>>
    /\ errors = <<>>
    /\ warnings = {}
    /\ mpl_styles = {StyleName}
    /\ top_n = DefaultTopN
    /\ outpath = None
    /\ top = NoSeries
    /\ top_rev = NoSeries
    /\ labels = <<>>
    /\ values = <<>>
    /\ colors = <<>>
    /\ files = {}
    /\ ret = "(not called)"

Next == MainLoad \/ MainCheck \/ MainAnalyze \/ MainDefine \/ MainSummary

Spec == Init /\ [][Next]_vars

-----------------------------------------------------------------------------
(* plot_top_pm25(F_pm25_total, sectors, textile_core, top_n, outpath),     *)
(* called on its own.                                                      *)

\* lines 79-118
PlotTopPm25 ==
    /\ pc = "plot"
    /\ pc' = "returned"
    /\ IF Empty(F_pm25_total)
       THEN /\ ret' = None
            /\ UNCHANGED <<top, top_rev, labels, values, colors, files>>
       ELSE \E sorted \in SortValuesDescending(F_pm25_total) :
                LET r == Ranking(sorted, top_n)
                    path == IF outpath = None THEN DefaultPath ELSE outpath
                IN  /\ top' = r.top
                    /\ top_rev' = r.top_rev
                    /\ labels' = r.labels
                    /\ values' = r.values
                    /\ colors' = r.colors
                    /\ IF StyleName \in mpl_styles
                       THEN /\ files' = files \cup {path}
                            /\ ret' = path
                       ELSE /\ ret' = "OSError"
                            /\ UNCHANGED files
    /\ UNCHANGED <<mainVars, F_pm25_total, plotArgs>>

InitPlot ==
    /\ archive = Archive(NoDataset)
    /\ pc = "plot"
    /\ io = NoDataset
    /\ regions = <<>>
    /\ sectors = <<>>
    /\ pm25_mask = <<>>
    /\ em_pm25 = NoFrame
    /\ F_pm25_total \in PlotSeries
    /\ textile_idx = <<>>
    /\ console = <<>>
    /\ errors = <<>>
    /\ warnings = {}
    /\ mpl_styles \in {{StyleName}, {RenamedStyleName}}
    /\ top_n \in TopNs
    /\ outpath \in {None, CustomPath}
    /\ top = NoSeries
    /\ top_rev = NoSeries
    /\ labels = <<>>
    /\ values = <<>>
    /\ colors = <<>>
    /\ files = {}
    /\ ret = "(not called)"

NextPlot == PlotTopPm25

SpecPlot == InitPlot /\ [][NextPlot]_vars

-----------------------------------------------------------------------------
(* Properties of analyze_pm25_emissions and define_textile_industry, as    *)
(* main runs them.                                                         *)

\* line 178 has returned
Analyzed == pc \in {"define", "summary"} \/ (pc = "done" /\ errors = <<>>)

\* line 181 has returned
Resolved == pc = "summary" \/ (pc = "done" /\ errors = <<>>)

\* fragment stands in label at position i, letter case ignored
OccursAt(fragment, label, i) ==
    /\ i + Len(fragment) - 1 <= Len(label)
    /\ \A k \in 1..Len(fragment) :
          Lower(label[i + k - 1]) = Lower(fragment[k])

\* label contains fragment as a literal substring, letter case ignored
ContainsLiterally(fragment, label) ==
    \E i \in 1..Len(label) : OccursAt(fragment, label, i)

\* the rows of the account the mask keeps
Matched == {r \in 1..Len(pm25_mask) : pm25_mask[r]}

\* the sum of column c of the account over the rows in rs
RECURSIVE SumOver(_, _)
SumOver(c, rs) ==
    IF rs = {} THEN 0
    ELSE LET r == CHOOSE x \in rs : TRUE
         IN  io.F.values[r][c] + SumOver(c, rs \ {r})

\* C1: a row of the account is selected if and only if its label contains
\* the fragment "PM2.5" as a literal substring, letter case ignored, and
\* the fragments "pm2.5" and "PM2.5" select the same rows.
C1_LiteralSelection ==
    Analyzed =>
        /\ Len(pm25_mask) = Len(io.F.index)
        /\ \A r \in 1..Len(io.F.index) :
              pm25_mask[r] <=> ContainsLiterally(Pm25Pattern, io.F.index[r])
        /\ StrContains(io.F.index, Pm25PatternLower, FALSE) = pm25_mask

\* C2: the series has exactly the columns of the account, in their order,
\* each value is the sum of its column over the matched rows, and with no
\* matched row every column is there with the value 0.
C2_ColumnSums ==
    Analyzed =>
        /\ F_pm25_total.index = io.F.columns
        /\ Len(F_pm25_total.values) = Len(io.F.columns)
        /\ \A c \in 1..Len(io.F.columns) :
              F_pm25_total.values[c] = SumOver(c, Matched)
        /\ Matched = {} =>
              \A c \in 1..Len(io.F.columns) : F_pm25_total.values[c] = 0

\* a matched row and an unmatched row, both with entries above 0, and a
\* total that leaves the unmatched row out
C2_Witness ==
    /\ Analyzed
    /\ Len(io.F.index) = 2
    /\ pm25_mask = <<TRUE, FALSE>>
    /\ io.F.values[1][1] > 0
    /\ io.F.values[2][1] > 0
    /\ F_pm25_total.values[1] = io.F.values[1][1]

\* C3: when no row matches, the filter returns the all-zero series and
\* issues a NoMatchWarning.
C3_NoMatchWarning ==
    (Analyzed /\ Matched = {}) =>
        /\ \A c \in 1..Len(F_pm25_total.values) : F_pm25_total.values[c] = 0
        /\ "NoMatchWarning" \in warnings

\* position (1-based) of name in the sector list
PositionsOf(name) == {i \in 1..Len(sectors) : sectors[i] = name}

\* the indices of the lines that report a sector found, in order
RECURSIVE FoundIndices(_)
FoundIndices(lines) ==
    IF lines = <<>> THEN <<>>
    ELSE (IF lines[1].found THEN <<lines[1].idx>> ELSE <<>>)
         \o FoundIndices(Tail(lines))

\* C4: resolution does not fail; every core name is tried, in order; a
\* name is found exactly when it equals a sector of the list, and then at
\* that sector's position; a name not found is reported and the names
\* after it are still tried; the indices come in the order of the names.
C4_Resolution ==
    Resolved =>
        /\ errors = <<>>
        /\ Len(console) = Len(textile_core)
        /\ \A k \in 1..Len(textile_core) :
              /\ console[k].sector = textile_core[k]
              /\ console[k].found <=> PositionsOf(textile_core[k]) # {}
              /\ console[k].found =>
                    console[k].idx + 1 \in PositionsOf(textile_core[k])
        /\ textile_idx = FoundIndices(console)
        /\ sectors = <<TextilesName, MiningName, WearingName>> =>
              textile_idx = <<0, 2>>

\* the first core name is only a part of a sector's name and is reported
\* not found; the second is found after it, at position 2
C4_Witness ==
    /\ Resolved
    /\ sectors = <<RecycledName, MiningName, WearingName>>
    /\ ~console[1].found
    /\ console[2].found
    /\ textile_idx = <<2>>

\* C10: a run that loads the dataset and computes a non-empty series ends
\* with the ranking made and the report written.
C10_ReportWritten ==
    (pc = "done" /\ errors = <<>> /\ ~Empty(F_pm25_total)) =>
        /\ ret # "(not called)"
        /\ files # {}

-----------------------------------------------------------------------------
(* Properties of plot_top_pm25.                                            *)

\* plot_top_pm25 has returned or raised
Returned == pc = "returned"

\* the entries of a series: (key, value) pairs
Entries(s) == {<<s.index[i], s.values[i]>> : i \in 1..Len(s.index)}

\* the place of a key in the column order of the series handed in
PlaceOf(key) ==
    CHOOSE i \in 1..Len(F_pm25_total.index) : F_pm25_total.index[i] = key

\* core stands in lab from position i on
Occurs(core, lab) ==
    \E i \in 1..Len(lab) :
        /\ i + Len(core) - 1 <= Len(lab)
        /\ \A k \in 1..Len(core) : lab[i + k - 1] = core[k]

\* C5: for a non-empty series and n >= 0 the ranked sequence has
\* min(n, |series|) entries, runs from the largest value to the smallest,
\* holds entries of the series, each once, and leaves out no entry larger
\* than one it holds.
C5_TopN ==
    (Returned /\ ~Empty(F_pm25_total) /\ top_n >= 0) =>
        /\ Len(top.index) = Min(top_n, Len(F_pm25_total.index))
        /\ Len(top.values) = Len(top.index)
        /\ \A i, j \in 1..Len(top.index) :
              i < j => top.values[i] >= top.values[j] /\ top.index[i] # top.index[j]
        /\ Entries(top) \subseteq Entries(F_pm25_total)
        /\ \A e \in Entries(F_pm25_total) \ Entries(top) :
              \A t \in Entries(top) : e[2] <= t[2]

\* three entries with the values 0, 2, 1 in column order and n = 2: the
\* entries with 2 and 1 are ranked, in that order
C5_Witness ==
    /\ Returned
    /\ top_n = 2
    /\ F_pm25_total.values = <<0, 2, 1>>
    /\ top.values = <<2, 1>>
    /\ top.index = <<F_pm25_total.index[2], F_pm25_total.index[3]>>

\* C6: of two entries with equal values the one first in column order is
\* first in the ranked sequence, and is the one kept when the cut at n >= 0
\* falls between them; the display order is the ranked sequence reversed.
C6_StableTies ==
    (Returned /\ ~Empty(F_pm25_total) /\ top_n >= 0) =>
        /\ \A i, j \in 1..Len(top.index) :
              (i < j /\ top.values[i] = top.values[j]) =>
                  PlaceOf(top.index[i]) < PlaceOf(top.index[j])
        /\ \A e \in Entries(F_pm25_total) \ Entries(top) :
              \A t \in Entries(top) :
                  e[2] = t[2] => PlaceOf(t[1]) < PlaceOf(e[1])
        /\ top_rev = ReversedSeries(top)

\* C7: for n <= 0 nothing is ranked and nothing is drawn.
C7_NonPositiveN ==
    (Returned /\ top_n <= 0) =>
        /\ top.index = <<>>
        /\ labels = <<>>

\* C8: with no ranked entry to draw, whether the series is empty or the
\* cut at top_n = 0 leaves nothing, no file is written and no path is
\* returned.
C8_EmptyReport ==
    (Returned /\ top_n >= 0 /\ top.index = <<>>) =>
        /\ files = {}
        /\ ret \notin {DefaultPath, CustomPath}

\* C9: the i-th bar has the label of the i-th key of the display order and
\* its value, and is red exactly when that label contains a core name.
C9_Colors ==
    (Returned /\ ~Empty(F_pm25_total)) =>
        /\ top_rev.index = Reversed(top.index)
        /\ top_rev.values = Reversed(top.values)
        /\ Len(labels) = Len(top_rev.index)
        /\ Len(values) = Len(top_rev.index)
        /\ Len(colors) = Len(top_rev.index)
        /\ \A i \in 1..Len(top_rev.index) :
              /\ labels[i] = top_rev.index[i][1] \o LabelSep \o top_rev.index[i][2]
              /\ values[i] = top_rev.values[i]
              /\ colors[i] \in {Red, Blue}
              /\ colors[i] = Red <=>
                    \E k \in 1..Len(textile_core) :
                        Occurs(textile_core[k], labels[i])

\* a chart written with a blue bar below a red one
C9_Witness ==
    /\ Returned
    /\ files # {}
    /\ Len(colors) = 2
    /\ colors = <<Blue, Red>>
    /\ top.index[1] = <<RegionUS, TextilesName>>
    /\ top.index[2] = <<RegionCN, MiningName>>

=============================================================================
